---------------------------- MODULE Spec2Model ----------------------------
(***************************************************************************)
(* Model of spacetab-io/http-go, package fhserver: the connection-draining *)
(* listener (shutdown.go) and the lifecycle orchestrator Server.Run        *)
(* (fhserver.go).                                                          *)
(*                                                                         *)
(* Goroutines of the model:                                                *)
(*   - the goroutine that executes Server.Run, and inside it               *)
(*     gracefulListener.Close / waitForZeroConns;                          *)
(*   - the serve goroutine launched by Run, which calls                    *)
(*     gracefulListener.Accept in a loop and sends its terminal result to  *)
(*     listenErr;                                                          *)
(*   - one goroutine per accepted connection, which calls                  *)
(*     gracefulConn.Close (and through it gracefulListener.closeConn).     *)
(* Every sync/atomic operation and every channel operation is one step.    *)
(*                                                                         *)
(* connsCount is a uint64.  Its value is represented by the integer n with *)
(* n mod 2^64 equal to it and n closest to zero, so that                   *)
(* AddUint64(&connsCount, ^uint64(0)) is n - 1 and a wrap-around below     *)
(* zero shows as a negative n (-1 stands for 2^64 - 1).                    *)
(***************************************************************************)
EXTENDS Integers, Sequences, FiniteSets, TLC

\* number of connections the environment offers to the inner listener
MaxConns == 2
\* number of SIGINT/SIGTERM signals the environment delivers
MaxSignals == 2
\* number of gracefulConn.Close calls whose inner Close fails
MaxCloseErrs == 1

Conns == 1..MaxConns

VARIABLES
  routerSet,        \* s.router != nil (SetRouter was called before Run)
  hasLog,           \* s.log != nil (SetLogger was called before Run)
  wgGiven,          \* Run was given a non-nil *sync.WaitGroup
  wgDone,           \* number of wg.Done() calls
  runPc,            \* position of the goroutine executing Server.Run
  logs,             \* messages sent to the logger
  DisableKeepalive, \* s.httpServer.DisableKeepalive
  subscribed,       \* signal.Notify(osSignals, ...) was called
  osSignals,        \* chan os.Signal, capacity 1
  sigCount,         \* signals delivered by the OS so far
  listenErr,        \* chan error, capacity 1
  servePc,          \* position of the serve goroutine
  serveRes,         \* the terminal result of s.httpServer.Serve
  innerLn,          \* state of the inner net.Listener (ln.ln)
  connsCount,       \* gracefulListener.connsCount
  shutdown,         \* gracefulListener.shutdown
  doneCloses,       \* number of close(ln.done) executed (2 = panic)
  closePc,          \* position inside gracefulListener.Close
  closeRet,         \* what the last gracefulListener.Close returned
  closeWake,        \* the select case that woke waitForZeroConns
  timer,            \* the timer of time.After(ln.maxWaitTime)
  closeCalls,       \* number of invocations of gracefulListener.Close
  bindCalls,        \* number of invocations of reuseport.Listen
  conn,             \* state of each connection
  localCount,       \* the local connsCount of each closeConn call
  connCloseErrs,    \* number of gracefulConn.Close calls that returned an error
  zeroAtCall,       \* history: counter was 0 at the Close call and since
  openAtClose,      \* history: counted connections when ln.ln.Close returned
  pendingAtFire,    \* history: those of openAtClose not closed at timer fire
  useCompression,   \* s.config.UseCompression()
  corsEnabled,      \* s.config.CORSEnabled()
  pipePc,           \* position of the serve loop in handling a request
  ctx,              \* the *fasthttp.RequestCtx of the request being handled
  served,           \* number of requests the serve loop has handled
  faults,           \* number of those in which the application handler panicked
  pipeCrashed       \* a panic left s.httpServer.Handler

vars == << routerSet, hasLog, wgGiven, wgDone, runPc, logs, DisableKeepalive,
           subscribed, osSignals, sigCount, listenErr, servePc, serveRes,
           innerLn, connsCount, shutdown, doneCloses, closePc, closeRet,
           closeWake, timer, closeCalls, bindCalls, conn, localCount,
           connCloseErrs, zeroAtCall, openAtClose, pendingAtFire,
           useCompression, corsEnabled, pipePc, ctx, served, faults,
           pipeCrashed >>

runVars    == << runPc, wgDone, logs, bindCalls >>
sigVars    == << subscribed, osSignals, sigCount >>
serveVars  == << servePc, serveRes >>
lnVars     == << innerLn, connsCount, shutdown, doneCloses >>
closeVars  == << closePc, closeRet, closeWake, timer, closeCalls >>
connVars   == << conn, localCount, connCloseErrs >>
histVars   == << zeroAtCall, openAtClose, pendingAtFire >>
cfgVars    == << routerSet, hasLog, wgGiven >>
pipeVars   == << useCompression, corsEnabled, pipePc, ctx, served, faults,
                 pipeCrashed >>
lifeVars   == << cfgVars, runVars, DisableKeepalive, sigVars, listenErr,
                 serveVars, lnVars, closeVars, connVars, histVars >>

\* capacity of listenErr: make(chan error, 1)
ListenErrCap == 1
\* capacity of osSignals: make(chan os.Signal, 1)
OsSignalsCap == 1

\* a message reaches the logger only when s.log != nil
Log(msg) == IF hasLog THEN logs \cup {msg} ELSE logs

\* a double close(ln.done) panics: "close of closed channel"
Panicked == doneCloses > 1

\* the request context before any request was served
NoCtx ==
  [method |-> "", ce |-> << >>, acceptEnc |-> FALSE, origBody |-> << >>,
   appStatus |-> 200, appPanics |-> FALSE, body |-> << >>, called |-> FALSE,
   seen |-> << >>, status |-> 200, respBody |-> "", respEncoded |-> FALSE,
   panic |-> FALSE, events |-> << >>, trace |-> << >>]

\* the lifecycle before Run is called
LifecycleIdle ==
  /\ wgDone = 0
  /\ runPc = "start"
  /\ logs = {}
  /\ DisableKeepalive = FALSE
  /\ subscribed = FALSE
  /\ osSignals = << >>
  /\ sigCount = 0
  /\ listenErr = << >>
  /\ servePc = "notStarted"
  /\ serveRes = "none"
  /\ innerLn = "none"
  /\ connsCount = 0
  /\ shutdown = 0
  /\ doneCloses = 0
  /\ closePc = "idle"
  /\ closeRet = "none"
  /\ closeWake = "none"
  /\ timer = "off"
  /\ closeCalls = 0
  /\ bindCalls = 0
  /\ conn = [c \in Conns |-> "none"]
  /\ localCount = [c \in Conns |-> 0]
  /\ connCloseErrs = 0
  /\ zeroAtCall = FALSE
  /\ openAtClose = {}
  /\ pendingAtFire = {}

\* the pipeline before SetRouter and before any request
PipelineIdle ==
  /\ useCompression = FALSE
  /\ corsEnabled = FALSE
  /\ pipePc = "idle"
  /\ ctx = NoCtx
  /\ served = 0
  /\ faults = 0
  /\ pipeCrashed = FALSE

Init ==
  /\ routerSet \in BOOLEAN
  /\ hasLog \in BOOLEAN
  /\ wgGiven \in BOOLEAN
  /\ LifecycleIdle
  /\ PipelineIdle

----------------------------------------------------------------------------
\* Server.Run

\* the deferred wg.Done() of Run
WgDone == IF wgGiven THEN wgDone + 1 ELSE wgDone

\* Run, entry: defer wg.Done(), "Server Run", the nil-router check
RunCheckRouter ==
  /\ ~Panicked
  /\ runPc = "start"
  /\ IF routerSet
       THEN /\ runPc' = "listen"
            /\ logs' = Log("Server Run")
            /\ wgDone' = wgDone
       ELSE /\ runPc' = "returned"
            /\ logs' = IF hasLog THEN logs \cup {"Server Run", "router is nil"}
                                 ELSE logs
            /\ wgDone' = WgDone
  /\ UNCHANGED << cfgVars, pipeVars, bindCalls, DisableKeepalive, sigVars, listenErr, serveVars,
                  lnVars, closeVars, connVars, histVars >>

\* RunListen with the error of reuseport.Listen ignored: Run goes on to
\* serve on the listener it did not get
RunListenErrIgnored(ok) ==
  /\ ~Panicked
  /\ runPc = "listen"
  /\ bindCalls' = bindCalls + 1
  /\ runPc' = "hostname"
  /\ innerLn' = IF ok THEN "open" ELSE innerLn
  /\ UNCHANGED << cfgVars, pipeVars, logs, wgDone, DisableKeepalive, sigVars, listenErr,
                  serveVars, connsCount, shutdown, doneCloses, closeVars,
                  connVars, histVars >>

\* reuseport.Listen and newGracefulListener
RunListen(ok) ==
  /\ ~Panicked
  /\ runPc = "listen"
  /\ bindCalls' = bindCalls + 1
  /\ IF ok
       THEN /\ runPc' = "hostname"
            /\ innerLn' = "open"
            /\ UNCHANGED << logs, wgDone >>
       ELSE /\ runPc' = "returned"
            /\ logs' = Log("error in reuseport listener")
            /\ wgDone' = WgDone
            /\ UNCHANGED innerLn
  /\ UNCHANGED << cfgVars, pipeVars, DisableKeepalive, sigVars, listenErr, serveVars,
                  connsCount, shutdown, doneCloses, closeVars, connVars,
                  histVars >>

\* os.Hostname
RunHostname(ok) ==
  /\ ~Panicked
  /\ runPc = "hostname"
  /\ IF ok
       THEN /\ runPc' = "launch"
            /\ UNCHANGED << logs, wgDone >>
       ELSE /\ runPc' = "returned"
            /\ logs' = Log("hostname unavailable")
            /\ wgDone' = WgDone
  /\ UNCHANGED << cfgVars, pipeVars, bindCalls, DisableKeepalive, sigVars, listenErr, serveVars,
                  lnVars, closeVars, connVars, histVars >>

\* listenErr := make(chan error, 1); go func() { ... Serve(graceful) }()
RunLaunch ==
  /\ ~Panicked
  /\ runPc = "launch"
  /\ runPc' = "notify"
  /\ listenErr' = << >>
  /\ servePc' = "accept"
  /\ UNCHANGED << cfgVars, pipeVars, bindCalls, wgDone, logs, DisableKeepalive, sigVars, serveRes,
                  lnVars, closeVars, connVars, histVars >>

\* osSignals := make(chan os.Signal, 1); signal.Notify(osSignals, ...)
RunNotify ==
  /\ ~Panicked
  /\ runPc = "notify"
  /\ runPc' = "select"
  /\ subscribed' = TRUE
  /\ osSignals' = << >>
  /\ UNCHANGED << cfgVars, pipeVars, bindCalls, wgDone, logs, DisableKeepalive, sigCount, listenErr,
                  serveVars, lnVars, closeVars, connVars, histVars >>

\* RunRecvListenErr with the break inside "if err != nil": a nil result of
\* Serve leaves Run in its loop
RunRecvListenErrBreakOnErrOnly ==
  /\ ~Panicked
  /\ runPc = "select"
  /\ Len(listenErr) > 0
  /\ listenErr' = Tail(listenErr)
  /\ IF Head(listenErr) # "nil"
       THEN logs' = Log("listener error") /\ runPc' = "returned"
            /\ wgDone' = WgDone
       ELSE UNCHANGED << logs, runPc, wgDone >>
  /\ UNCHANGED << cfgVars, pipeVars, bindCalls, DisableKeepalive, sigVars, serveVars,
                  lnVars, closeVars, connVars, histVars >>

\* select, case err := <-listenErr: log a non-nil err, break signalLoop
RunRecvListenErr ==
  /\ ~Panicked
  /\ runPc = "select"
  /\ Len(listenErr) > 0
  /\ listenErr' = Tail(listenErr)
  /\ logs' = IF Head(listenErr) # "nil" THEN Log("listener error") ELSE logs
  /\ runPc' = "returned"
  /\ wgDone' = WgDone
  /\ UNCHANGED << cfgVars, pipeVars, bindCalls, DisableKeepalive, sigVars, serveVars, lnVars,
                  closeVars, connVars, histVars >>

\* RunRecvSignal without line 214: keep-alive stays enabled when
\* graceful.Close() is called
RunRecvSignalKeepsKeepalive ==
  /\ ~Panicked
  /\ runPc = "select"
  /\ Len(osSignals) > 0
  /\ osSignals' = Tail(osSignals)
  /\ logs' = Log("Shutdown signal received.")
  /\ runPc' = "callClose"
  /\ UNCHANGED << cfgVars, pipeVars, bindCalls, wgDone, DisableKeepalive, subscribed,
                  sigCount, listenErr, serveVars, lnVars, closeVars, connVars,
                  histVars >>

\* select, case <-osSignals, lines 208-214: log, disable keep-alive
RunRecvSignal ==
  /\ ~Panicked
  /\ runPc = "select"
  /\ Len(osSignals) > 0
  /\ osSignals' = Tail(osSignals)
  /\ logs' = Log("Shutdown signal received.")
  /\ DisableKeepalive' = TRUE
  /\ runPc' = "callClose"
  /\ UNCHANGED << cfgVars, pipeVars, bindCalls, wgDone, subscribed, sigCount, listenErr,
                  serveVars, lnVars, closeVars, connVars, histVars >>

\* line 218: the call of graceful.Close()
RunCallClose ==
  /\ ~Panicked
  /\ runPc = "callClose"
  /\ runPc' = "close"
  /\ closePc' = "innerClose"
  /\ closeRet' = "none"
  /\ closeCalls' = closeCalls + 1
  /\ zeroAtCall' = (connsCount = 0)
  /\ UNCHANGED << cfgVars, pipeVars, bindCalls, wgDone, logs, DisableKeepalive, sigVars,
                  listenErr, serveVars, lnVars, closeWake, timer, connVars,
                  openAtClose, pendingAtFire >>

\* RunCloseReturn with wg.Done() called as soon as the drain has completed
\* instead of deferred: Run signals the WaitGroup and stays in its loop
RunCloseReturnDoneAfterDrain ==
  /\ ~Panicked
  /\ runPc = "close"
  /\ closePc = "ret"
  /\ closePc' = "idle"
  /\ wgDone' = WgDone
  /\ IF closeRet # "nil"
       THEN /\ logs' = Log("graceful close error")
            /\ runPc' = "returned"
       ELSE /\ logs' = Log("Server gracefully stopped.")
            /\ runPc' = "select"
  /\ UNCHANGED << cfgVars, pipeVars, bindCalls, DisableKeepalive, sigVars, listenErr, serveVars,
                  lnVars, closeRet, closeWake, timer, closeCalls, connVars,
                  histVars >>

\* graceful.Close() returned: an error breaks signalLoop, nil logs
\* "Server gracefully stopped." and the for loop goes on
RunCloseReturn ==
  /\ ~Panicked
  /\ runPc = "close"
  /\ closePc = "ret"
  /\ closePc' = "idle"
  /\ IF closeRet # "nil"
       THEN /\ logs' = Log("graceful close error")
            /\ runPc' = "returned"
            /\ wgDone' = WgDone
       ELSE /\ logs' = Log("Server gracefully stopped.")
            /\ runPc' = "select"
            /\ wgDone' = wgDone
  /\ UNCHANGED << cfgVars, pipeVars, bindCalls, DisableKeepalive, sigVars, listenErr, serveVars,
                  lnVars, closeRet, closeWake, timer, closeCalls, connVars,
                  histVars >>

----------------------------------------------------------------------------
\* the OS delivers SIGINT or SIGTERM: package signal sends without blocking,
\* so a signal that finds osSignals full is dropped
Signal ==
  /\ ~Panicked
  /\ subscribed
  /\ sigCount < MaxSignals
  /\ sigCount' = sigCount + 1
  /\ osSignals' = IF Len(osSignals) < OsSignalsCap
                    THEN Append(osSignals, "sig") ELSE osSignals
  /\ UNCHANGED << cfgVars, pipeVars, runVars, DisableKeepalive, subscribed, listenErr,
                  serveVars, lnVars, closeVars, connVars, histVars >>

----------------------------------------------------------------------------
\* gracefulListener

\* close(ln.done); a select parked on ln.done is woken by the first close
CloseDoneWake ==
  IF closePc = "select" /\ closeWake = "none" THEN "done" ELSE closeWake

\* the next connection the inner listener hands out
NextConn == CHOOSE c \in Conns : conn[c] = "none" /\
                                 \A d \in Conns : conn[d] = "none" => c <= d

\* AcceptInner with the counter incremented before err is looked at: a
\* failed inner Accept is counted too
AcceptInnerCountsOnError(ok, res) ==
  /\ ~Panicked
  /\ servePc = "accept"
  /\ IF ok
       THEN /\ innerLn = "open"
            /\ \E c \in Conns : conn[c] = "none"
            /\ conn' = [conn EXCEPT ![NextConn] = "accepted"]
            /\ servePc' = "count"
            /\ UNCHANGED << serveRes, connsCount >>
       ELSE /\ servePc' = "send"
            /\ serveRes' = res
            /\ connsCount' = connsCount + 1
            /\ UNCHANGED conn
  /\ UNCHANGED << cfgVars, pipeVars, runVars, DisableKeepalive, sigVars, listenErr,
                  innerLn, shutdown, doneCloses, closeVars, localCount,
                  connCloseErrs, histVars >>

\* Accept, line 44: c, err := ln.ln.Accept(); a non-nil err is returned
\* wrapped, and s.httpServer.Serve ends with a terminal result
AcceptInner(ok, res) ==
  /\ ~Panicked
  /\ servePc = "accept"
  /\ IF ok
       THEN /\ innerLn = "open"
            /\ \E c \in Conns : conn[c] = "none"
            /\ conn' = [conn EXCEPT ![NextConn] = "accepted"]
            /\ servePc' = "count"
            /\ UNCHANGED serveRes
       ELSE /\ servePc' = "send"
            /\ serveRes' = res
            /\ UNCHANGED conn
  /\ UNCHANGED << cfgVars, pipeVars, runVars, DisableKeepalive, sigVars, listenErr,
                  lnVars, closeVars, localCount, connCloseErrs, histVars >>

\* Accept, lines 49-54: atomic.AddUint64(&ln.connsCount, 1) and the return
\* of the wrapped connection
AcceptCount ==
  /\ ~Panicked
  /\ servePc = "count"
  /\ \E c \in Conns :
       /\ conn[c] = "accepted"
       /\ conn' = [conn EXCEPT ![c] = "open"]
  /\ connsCount' = connsCount + 1
  /\ servePc' = "accept"
  /\ zeroAtCall' = FALSE
  /\ UNCHANGED << cfgVars, pipeVars, runVars, DisableKeepalive, sigVars, listenErr,
                  serveRes, innerLn, shutdown, doneCloses, closeVars,
                  localCount, connCloseErrs, openAtClose, pendingAtFire >>

\* listenErr <- s.httpServer.Serve(graceful)
ServeSend ==
  /\ ~Panicked
  /\ servePc = "send"
  /\ Len(listenErr) < ListenErrCap
  /\ listenErr' = Append(listenErr, serveRes)
  /\ servePc' = "done"
  /\ UNCHANGED << cfgVars, pipeVars, runVars, DisableKeepalive, sigVars, serveRes,
                  lnVars, closeVars, connVars, histVars >>

\* CloseInner with the error of ln.ln.Close() ignored: Close goes on to
\* waitForZeroConns also when closing the inner listener failed
CloseInnerErrIgnored(ok) ==
  /\ ~Panicked
  /\ closePc = "innerClose"
  /\ IF ok
       THEN /\ innerLn = "open"
            /\ innerLn' = "closed"
            /\ openAtClose' = {c \in Conns : conn[c] \in {"open", "innerClosed"}}
       ELSE UNCHANGED << innerLn, openAtClose >>
  /\ closePc' = "incShutdown"
  /\ UNCHANGED << cfgVars, pipeVars, runVars, DisableKeepalive, sigVars, listenErr,
                  serveVars, connsCount, shutdown, doneCloses, closeRet,
                  closeWake, timer, closeCalls, connVars, zeroAtCall,
                  pendingAtFire >>

\* Close, line 65: ln.ln.Close(); closing a closed listener fails
CloseInner(ok) ==
  /\ ~Panicked
  /\ closePc = "innerClose"
  /\ IF ok
       THEN /\ innerLn = "open"
            /\ innerLn' = "closed"
            /\ closePc' = "incShutdown"
            /\ openAtClose' = {c \in Conns : conn[c] \in {"open", "innerClosed"}}
            /\ UNCHANGED closeRet
       ELSE /\ closePc' = "ret"
            /\ closeRet' = "closeError"
            /\ UNCHANGED << innerLn, openAtClose >>
  /\ UNCHANGED << cfgVars, pipeVars, runVars, DisableKeepalive, sigVars, listenErr,
                  serveVars, connsCount, shutdown, doneCloses, closeWake,
                  timer, closeCalls, connVars, zeroAtCall, pendingAtFire >>

\* waitForZeroConns, line 73: atomic.AddUint64(&ln.shutdown, 1)
WaitIncShutdown ==
  /\ ~Panicked
  /\ closePc = "incShutdown"
  /\ shutdown' = shutdown + 1
  /\ closePc' = "loadCount"
  /\ UNCHANGED << cfgVars, pipeVars, runVars, DisableKeepalive, sigVars, listenErr,
                  serveVars, innerLn, connsCount, doneCloses, closeRet,
                  closeWake, timer, closeCalls, connVars, histVars >>

\* waitForZeroConns, lines 75-82: LoadUint64(&ln.connsCount) == 0 closes
\* ln.done and returns nil; otherwise the select starts the timer and
\* takes the ln.done case at once when the channel is already closed
WaitLoadCount ==
  /\ ~Panicked
  /\ closePc = "loadCount"
  /\ IF connsCount = 0
       THEN /\ doneCloses' = doneCloses + 1
            /\ IF doneCloses = 0
                 THEN closePc' = "ret" /\ closeRet' = "nil" /\ wgDone' = wgDone
                 ELSE closePc' = "panic" /\ closeRet' = "panic"
                      /\ wgDone' = WgDone
            /\ UNCHANGED << closeWake, timer >>
       ELSE /\ closePc' = "select"
            /\ timer' = "running"
            /\ closeWake' = IF doneCloses > 0 THEN "done" ELSE "none"
            /\ UNCHANGED << doneCloses, closeRet, wgDone >>
  /\ UNCHANGED << cfgVars, pipeVars, bindCalls, runPc, logs, DisableKeepalive, sigVars, listenErr,
                  serveVars, innerLn, connsCount, shutdown, closeCalls,
                  connVars, histVars >>

\* the timer of time.After(ln.maxWaitTime) fires; a select still parked on
\* both channels is woken by it
TimerFire ==
  /\ ~Panicked
  /\ timer = "running"
  /\ timer' = "fired"
  /\ IF closePc = "select" /\ closeWake = "none"
       THEN /\ closeWake' = "timeout"
            /\ pendingAtFire' = {c \in openAtClose : conn[c] # "closed"}
       ELSE UNCHANGED << closeWake, pendingAtFire >>
  /\ UNCHANGED << cfgVars, pipeVars, runVars, DisableKeepalive, sigVars, listenErr,
                  serveVars, lnVars, closePc, closeRet, closeCalls, connVars,
                  zeroAtCall, openAtClose >>

\* waitForZeroConns, lines 82-90: the woken select returns nil for ln.done
\* and logs and returns ErrFHServerShutdown for the timer
WaitSelectReturn ==
  /\ ~Panicked
  /\ closePc = "select"
  /\ closeWake # "none"
  /\ closePc' = "ret"
  /\ IF closeWake = "done"
       THEN closeRet' = "nil" /\ UNCHANGED logs
       ELSE closeRet' = "ErrFHServerShutdown"
            /\ logs' = Log("cannot complete graceful shutdown")
  /\ closeWake' = "none"
  /\ UNCHANGED << cfgVars, pipeVars, bindCalls, runPc, wgDone, DisableKeepalive, sigVars, listenErr,
                  serveVars, lnVars, timer, closeCalls, connVars, histVars >>

----------------------------------------------------------------------------
\* gracefulConn

\* gracefulConn.Close, line 107, c.Conn.Close() succeeds
ConnClose(c) ==
  /\ ~Panicked
  /\ conn[c] = "open"
  /\ conn' = [conn EXCEPT ![c] = "innerClosed"]
  /\ UNCHANGED << cfgVars, pipeVars, runVars, DisableKeepalive, sigVars, listenErr,
                  serveVars, lnVars, closeVars, localCount, connCloseErrs,
                  histVars >>

\* ConnCloseErr with closeConn called before the error of c.Conn.Close() is
\* looked at: a failed Close decrements the counter too
ConnCloseErrDecrements(c) ==
  /\ ~Panicked
  /\ conn[c] \in {"open", "innerClosed", "decremented", "closed"}
  /\ connCloseErrs < MaxCloseErrs
  /\ connCloseErrs' = connCloseErrs + 1
  /\ connsCount' = connsCount - 1
  /\ UNCHANGED << cfgVars, pipeVars, runVars, DisableKeepalive, sigVars, listenErr,
                  serveVars, innerLn, shutdown, doneCloses, closeVars, conn,
                  localCount, histVars >>

\* gracefulConn.Close, lines 107-109, c.Conn.Close() fails (always so on a
\* connection that is closed already): the wrapped error is returned and
\* closeConn is not called
ConnCloseErr(c) ==
  /\ ~Panicked
  /\ conn[c] \in {"open", "innerClosed", "decremented", "closed"}
  /\ connCloseErrs < MaxCloseErrs
  /\ connCloseErrs' = connCloseErrs + 1
  /\ UNCHANGED << cfgVars, pipeVars, runVars, DisableKeepalive, sigVars, listenErr,
                  serveVars, lnVars, closeVars, conn, localCount, histVars >>

\* closeConn, line 94: connsCount := atomic.AddUint64(&ln.connsCount, ^uint64(0))
CloseConnAdd(c) ==
  /\ ~Panicked
  /\ conn[c] = "innerClosed"
  /\ connsCount' = connsCount - 1
  /\ localCount' = [localCount EXCEPT ![c] = connsCount - 1]
  /\ conn' = [conn EXCEPT ![c] = "decremented"]
  /\ UNCHANGED << cfgVars, pipeVars, runVars, DisableKeepalive, sigVars, listenErr,
                  serveVars, innerLn, shutdown, doneCloses, closeVars,
                  connCloseErrs, histVars >>

\* CloseConnCheck without the test of the shutdown flag: the hook fires
\* whenever its decrement brought the counter to zero
CloseConnCheckNoShutdownTest(c) ==
  /\ ~Panicked
  /\ conn[c] = "decremented"
  /\ IF localCount[c] = 0
       THEN /\ doneCloses' = doneCloses + 1
            /\ closeWake' = CloseDoneWake
       ELSE UNCHANGED << doneCloses, closeWake >>
  /\ conn' = [conn EXCEPT ![c] = "closed"]
  /\ localCount' = [localCount EXCEPT ![c] = 0]
  /\ UNCHANGED << cfgVars, pipeVars, runVars, DisableKeepalive, sigVars, listenErr,
                  serveVars, innerLn, connsCount, shutdown, closePc, closeRet,
                  timer, closeCalls, connCloseErrs, histVars >>

\* closeConn, lines 96-98: close(ln.done) when the shutdown flag is set and
\* the local connsCount is zero; then gracefulConn.Close returns nil
CloseConnCheck(c) ==
  /\ ~Panicked
  /\ conn[c] = "decremented"
  /\ IF shutdown # 0 /\ localCount[c] = 0
       THEN /\ doneCloses' = doneCloses + 1
            /\ closeWake' = CloseDoneWake
       ELSE UNCHANGED << doneCloses, closeWake >>
  /\ conn' = [conn EXCEPT ![c] = "closed"]
  /\ localCount' = [localCount EXCEPT ![c] = 0]
  /\ UNCHANGED << cfgVars, pipeVars, runVars, DisableKeepalive, sigVars, listenErr,
                  serveVars, innerLn, connsCount, shutdown, closePc, closeRet,
                  timer, closeCalls, connCloseErrs, histVars >>

----------------------------------------------------------------------------
\* a panic ("close of closed channel") is recovered nowhere: it ends the
\* process, and no goroutine takes another step (the guard ~Panicked of
\* every action)
Next ==
  \/ RunCheckRouter
  \/ \E ok \in BOOLEAN : RunListen(ok)
  \/ \E ok \in BOOLEAN : RunHostname(ok)
  \/ RunLaunch
  \/ RunNotify
  \/ RunRecvListenErr
  \/ RunRecvSignal
  \/ RunCallClose
  \/ RunCloseReturn
  \/ Signal
  \/ \E ok \in BOOLEAN, res \in {"nil", "err"} : AcceptInner(ok, res)
  \/ AcceptCount
  \/ ServeSend
  \/ \E ok \in BOOLEAN : CloseInner(ok)
  \/ WaitIncShutdown
  \/ WaitLoadCount
  \/ TimerFire
  \/ WaitSelectReturn
  \/ \E c \in Conns : ConnClose(c)
  \/ \E c \in Conns : ConnCloseErr(c)
  \/ \E c \in Conns : CloseConnAdd(c)
  \/ \E c \in Conns : CloseConnCheck(c)

Spec == Init /\ [][Next]_vars

----------------------------------------------------------------------------
\* The middleware pipeline (fhserver.go SetRouter, DecompressRequestHandler;
\* recovery.go; logger.go).  A handler is modelled by what it does to the
\* request context; a middleware by what it does before it calls the
\* handler it wraps and by what it does after that handler has returned or
\* panicked (ctx.panic: a panic is unwinding the stack).  The pipeline is
\* modelled for a Server whose logger is set when SetRouter is called.
\* Byte strings are sequences of characters.

\* number of requests the serve loop handles
MaxRequests == 2

\* http.StatusBadRequest
StatusBadRequest == 400
\* http.StatusInternalServerError
StatusInternalServerError == 500

\* the statuses the application handler answers with
AppStatuses == {200, 301, 399, 400, 404, 499, 500, 503}

\* the values of the Content-Encoding request header: none, "gzip",
\* "deflate", "br", "gzip, deflate", "gzip,deflate", "deflate, gzip",
\* "gzip, br", "x-gzip", "gzip;q=1"
ContentEncodings ==
  { << >>,
    << "g", "z", "i", "p" >>,
    << "d", "e", "f", "l", "a", "t", "e" >>,
    << "b", "r" >>,
    << "g", "z", "i", "p", ",", " ", "d", "e", "f", "l", "a", "t", "e" >>,
    << "g", "z", "i", "p", ",", "d", "e", "f", "l", "a", "t", "e" >>,
    << "d", "e", "f", "l", "a", "t", "e", ",", " ", "g", "z", "i", "p" >>,
    << "g", "z", "i", "p", ",", " ", "b", "r" >>,
    << "x", "-", "g", "z", "i", "p" >>,
    << "g", "z", "i", "p", ";", "q", "=", "1" >> }

\* the request bodies: the encodings applied (outermost first) around the
\* payload "data"; << >> is the empty body
Bodies ==
  { << "data" >>, << "gzip", "data" >>, << "deflate", "data" >>,
    << "br", "data" >>, << >> }

\* bytes.Index(s, t), 0-based, -1 when t does not occur in s
BytesIndex(s, t) ==
  LET at == {i \in 1..(Len(s) - Len(t) + 1) : SubSeq(s, i, i + Len(t) - 1) = t}
  IN  IF at = {} THEN -1
      ELSE (CHOOSE i \in at : \A j \in at : i <= j) - 1

\* hasContentEncodingBytes(h, encoding) with ae the Content-Encoding value
hasContentEncodingBytes(ae, encoding) ==
  LET n == BytesIndex(ae, encoding)
      b == SubSeq(ae, n + Len(encoding) + 1, Len(ae))
  IN  IF n < 0 THEN FALSE
      ELSE IF Len(b) > 0 /\ b[1] # "," THEN FALSE
      ELSE IF n = 0 THEN TRUE
      ELSE ae[n] = " "

\* ctx.Request.BodyGunzip(), BodyInflate(), BodyUnbrotli(): the body with
\* its outermost encoding removed, or (nil, err) when the body is not in
\* that encoding
BodyDecode(body, encoding) ==
  IF body # << >> /\ Head(body) = encoding
    THEN [b |-> Tail(body), err |-> FALSE]
    ELSE [b |-> << >>, err |-> TRUE]

\* DecompressRequestHandler, lines 72-85: what it does before h(ctx)
DecompressRequestHandler(c) ==
  LET b0 == c.body
      b1 == IF hasContentEncodingBytes(c.ce, << "g", "z", "i", "p" >>)
              THEN BodyDecode(c.body, "gzip").b ELSE b0
      b2 == IF hasContentEncodingBytes(c.ce, << "d", "e", "f", "l", "a", "t", "e" >>)
              THEN BodyDecode(c.body, "deflate").b ELSE b1
      b3 == IF hasContentEncodingBytes(c.ce, << "b", "r" >>)
              THEN BodyDecode(c.body, "br").b ELSE b2
  IN  [c EXCEPT !.body = b3, !.trace = Append(@, "decompress")]

\* fasthttp.CompressHandler, after the wrapped handler returned: the
\* response is compressed when the client accepts an encoding
CompressHandler(c) ==
  IF c.panic THEN c ELSE [c EXCEPT !.respEncoded = c.acceptEnc]

\* r.Handler: the application handler reads the body, sets the status and
\* may panic
AppHandler(c) ==
  [c EXCEPT !.called = TRUE, !.seen = c.body, !.status = c.appStatus,
            !.respBody = "app", !.panic = c.appPanics,
            !.trace = Append(@, "app")]

\* recoveryMiddleware with rvr thrown again after ctx.Error
recoveryMiddlewareReraises(c) ==
  IF c.panic
    THEN [c EXCEPT !.status = StatusInternalServerError,
                   !.respBody = "recover", !.respEncoded = FALSE]
    ELSE c

\* recoveryMiddleware, lines 11-15, after next(ctx): the deferred recover()
\* stops a panic and ctx.Error("recover", 500) replaces the response
recoveryMiddleware(c) ==
  IF c.panic
    THEN [c EXCEPT !.panic = FALSE, !.status = StatusInternalServerError,
                   !.respBody = "recover", !.respEncoded = FALSE]
    ELSE c

\* the level with ">" for ">=" in the first case of the switch
LogLevelOffByOne(statusCode) ==
  IF statusCode > StatusBadRequest /\ statusCode < StatusInternalServerError
    THEN "warn"
  ELSE IF statusCode >= StatusInternalServerError THEN "error"
  ELSE "debug"

\* loggingMiddleware, lines 31-38: the level of the event
LogLevel(statusCode) ==
  IF statusCode >= StatusBadRequest /\ statusCode < StatusInternalServerError
    THEN "warn"
  ELSE IF statusCode >= StatusInternalServerError THEN "error"
  ELSE "debug"

\* loggingMiddleware, lines 17-39, after req(ctx): the defer is registered
\* only when req(ctx) has returned, so a panic of req(ctx) passes with no
\* event; otherwise one event is sent as the middleware returns
loggingMiddleware(c) ==
  IF c.panic THEN c
  ELSE [c EXCEPT !.events = Append(@, [status |-> c.status,
                                        level |-> LogLevel(c.status)]),
                 !.trace = Append(@, "log.event")]

\* SetRouter with the recovery layer put around the logging layer
SetRouterRecoveryOutsideLogging(compression, cors) ==
  (IF cors THEN << "cors" >> ELSE << >>)
    \o << "recovery", "logging" >>
    \o (IF compression THEN << "decompress", "compress" >> ELSE << >>)
    \o << "app" >>

\* SetRouter with the two handlers of lines 101-102 in the other order
SetRouterCompressOutsideDecompress(compression, cors) ==
  (IF cors THEN << "cors" >> ELSE << >>)
    \o << "logging", "recovery" >>
    \o (IF compression THEN << "compress", "decompress" >> ELSE << >>)
    \o << "app" >>

\* SetRouter, lines 99-128: the layers of s.httpServer.Handler, outermost
\* first
SetRouter(compression, cors) ==
  (IF cors THEN << "cors" >> ELSE << >>)
    \o << "logging", "recovery" >>
    \o (IF compression THEN << "decompress", "compress" >> ELSE << >>)
    \o << "app" >>

\* a call of the handler that the layers of chain make up
RECURSIVE Call(_, _)
Call(chain, c) ==
  LET layer == Head(chain)
      in    == [c EXCEPT !.trace = Append(@, layer)]
  IN  CASE layer = "app" -> AppHandler(c)
        [] layer = "compress" -> CompressHandler(Call(Tail(chain), in))
        [] layer = "decompress" ->
             Call(Tail(chain), DecompressRequestHandler(c))
        [] layer = "recovery" -> recoveryMiddleware(Call(Tail(chain), in))
        [] layer = "logging" -> loggingMiddleware(Call(Tail(chain), in))
        [] layer = "cors" ->
             \* fasthttpcors answers a preflight request itself and calls
             \* the wrapped handler for every other request
             IF c.method = "OPTIONS" THEN in ELSE Call(Tail(chain), in)

\* the context fasthttp hands to s.httpServer.Handler
NewCtx(method, ce, acceptEnc, body, appStatus, appPanics) ==
  [NoCtx EXCEPT !.method = method, !.ce = ce, !.acceptEnc = acceptEnc,
                !.origBody = body, !.body = body, !.appStatus = appStatus,
                !.appPanics = appPanics]

\* a request arrives on a connection: fasthttp fills a RequestCtx
ReceiveRequest(method, ce, acceptEnc, body, appStatus, appPanics) ==
  /\ ~pipeCrashed
  /\ pipePc = "idle"
  /\ served < MaxRequests
  /\ ctx' = NewCtx(method, ce, acceptEnc, body, appStatus, appPanics)
  /\ pipePc' = "request"
  /\ UNCHANGED << lifeVars, useCompression, corsEnabled, served, faults,
                  pipeCrashed >>

\* s.httpServer.Handler(ctx), the handler SetRouter installed; a panic
\* that leaves it is recovered nowhere and ends the process
HandleRequest ==
  /\ ~pipeCrashed
  /\ pipePc = "request"
  /\ ctx' = Call(SetRouter(useCompression, corsEnabled), ctx)
  /\ pipePc' = "handled"
  /\ served' = served + 1
  /\ faults' = IF ctx'.called /\ ctx.appPanics THEN faults + 1 ELSE faults
  /\ pipeCrashed' = ctx'.panic
  /\ UNCHANGED << lifeVars, useCompression, corsEnabled >>

\* the response is written and the RequestCtx released; the serve loop
\* goes on with the next request
ReleaseCtx ==
  /\ ~pipeCrashed
  /\ pipePc = "handled"
  /\ ctx' = NoCtx
  /\ pipePc' = "idle"
  /\ UNCHANGED << lifeVars, useCompression, corsEnabled, served, faults,
                  pipeCrashed >>

PipeInit ==
  /\ routerSet = TRUE
  /\ hasLog = TRUE
  /\ wgGiven = FALSE
  /\ LifecycleIdle
  /\ useCompression \in BOOLEAN
  /\ corsEnabled \in BOOLEAN
  /\ pipePc = "idle"
  /\ ctx = NoCtx
  /\ served = 0
  /\ faults = 0
  /\ pipeCrashed = FALSE

PipeNext ==
  \/ \E method \in {"GET", "OPTIONS"}, ce \in ContentEncodings,
        acceptEnc \in BOOLEAN, body \in Bodies, appStatus \in AppStatuses,
        appPanics \in BOOLEAN :
       ReceiveRequest(method, ce, acceptEnc, body, appStatus, appPanics)
  \/ HandleRequest
  \/ ReleaseCtx

PipeSpec == PipeInit /\ [][PipeNext]_vars

----------------------------------------------------------------------------
\* Properties

\* connections that are counted in connsCount: incremented by Accept and
\* not yet decremented by closeConn
Counted == {c \in Conns : conn[c] \in {"open", "innerClosed"}}

\* C1: the open-connection counter never goes below zero (the uint64 never
\* wraps around), and every decrement is paired with a prior increment:
\* the counter is exactly the number of connections that Accept has counted
\* and closeConn has not yet decremented.
C1_CounterNeverNegative ==
  /\ connsCount >= 0
  /\ connsCount = Cardinality(Counted)

\* C1 witness: one connection was accepted and closed through closeConn, a
\* Close call failed, and another connection is still open and counted.
C1_Witness ==
  /\ connCloseErrs > 0
  /\ connsCount = 1
  /\ \E c, d \in Conns : conn[c] = "closed" /\ conn[d] = "open"

\* C2: the completion signal never fires twice: close(ln.done) is executed
\* at most once, whatever the interleaving of Listener.Close, Accept and
\* the connection closures.
C2_DoneClosedAtMostOnce == doneCloses <= 1

\* C3: with N the connections counted when the inner listener was closed:
\* if Close reports ErrFHServerShutdown then some of the N had not closed
\* when the drain timer fired; if Close returns nil then all N have
\* reported their closure; and Close never ends in a panic once all N have
\* closed.
C3_DrainOutcome ==
  /\ closeRet = "ErrFHServerShutdown" => pendingAtFire # {}
  /\ closeRet = "nil" =>
       \A c \in openAtClose : conn[c] \in {"decremented", "closed"}
  /\ closeRet = "panic" => \E c \in openAtClose : conn[c] # "closed"

\* C4: a Listener.Close that is called while the counter is zero, and
\* during which the counter stays zero, never waits in the select and
\* never panics; when closing the inner listener succeeded it returns nil.
C4_CloseWithZeroConns ==
  zeroAtCall =>
    /\ closePc \notin {"select", "panic"}
    /\ closePc = "ret" /\ closeRet # "closeError" => closeRet = "nil"

\* C5: Listener.Close never returns nil while a connection that the inner
\* listener has accepted is still open (handed out, or about to be).
C5_NoSuccessWithOpenConn ==
  closeRet = "nil" => \A c \in Conns : conn[c] \notin {"accepted", "open"}

\* C6: once the inner listener's Close has returned, the counter is never
\* incremented and no new wrapped connection is handed out: every open
\* connection was counted already when the inner listener was closed.
C6_NoAcceptAfterInnerClose ==
  innerLn = "closed" =>
    /\ \A c \in Conns : conn[c] = "open" => c \in openAtClose
    /\ connsCount <= Cardinality(openAtClose)

\* C7: after Run has taken a termination signal, the process never crashes
\* before Run has returned (so Run can return in both outcomes of the
\* drain).
C7_RunNotCrashedByDrain ==
  closeCalls > 0 /\ runPc # "returned" => ~Panicked

\* C8: Listener.Close is invoked at most once per Server.Run, however many
\* termination signals are delivered.
C8_CloseInvokedAtMostOnce == closeCalls <= 1

\* Run has received the terminal result of the serve loop from listenErr
ServeResultReceived == servePc = "done" /\ Len(listenErr) = 0

\* C9: the send of the serve loop's terminal result never blocks (listenErr
\* has a free slot whenever the serve goroutine is about to send, also when
\* Run has returned), and once Run has received the result it has stopped:
\* it has returned, is not inside Listener.Close, and when it had taken no
\* signal before, the listener was never closed and no drain was started.
C9_ServeResultStopsRun ==
  /\ servePc = "send" => Len(listenErr) < ListenErrCap
  /\ ServeResultReceived =>
       /\ runPc = "returned"
       /\ closePc = "idle"
       /\ closeCalls = 0 => innerLn = "open" /\ shutdown = 0

\* C9 witness: Run, while serving and with no signal taken, received a
\* non-nil result of the serve loop and returned.
C9_Witness ==
  /\ ServeResultReceived
  /\ serveRes = "err"
  /\ closeCalls = 0
  /\ runPc = "returned"

\* C10: after a startup failure (nil router, or the bind failed so that
\* there is no listener) the serve loop was never launched, no signal
\* subscription was made, reuseport.Listen was tried at most once, and a
\* Run that saw the failure has returned.
C10_StartupFailureAborts ==
  /\ ~routerSet =>
       /\ runPc \in {"start", "returned"}
       /\ bindCalls = 0
       /\ innerLn = "none"
       /\ servePc = "notStarted"
       /\ ~subscribed
  /\ bindCalls > 0 /\ innerLn = "none" =>
       /\ runPc = "returned"
       /\ bindCalls = 1
       /\ servePc = "notStarted"
       /\ ~subscribed
       /\ closeCalls = 0

\* C10 witness: the router is set, the bind failed and Run has returned.
C10_Witness ==
  /\ routerSet
  /\ bindCalls = 1
  /\ innerLn = "none"
  /\ runPc = "returned"

\* C16: the connection-close hook fires the completion signal only if the
\* shutdown flag is set and its own decrement returned zero: ln.done is
\* never closed while the shutdown flag is zero, and a closeConn step that
\* closes ln.done has a zero local count and sees the flag set.
C16_HookFiresOnlyOnShutdownZero ==
  /\ [](doneCloses > 0 => shutdown # 0)
  /\ [][\A c \in Conns :
          (conn[c] = "decremented" /\ conn'[c] = "closed"
             /\ doneCloses' # doneCloses)
          => (shutdown # 0 /\ localCount[c] = 0)]_vars

\* C16 witness: the hook of a closing connection fired the signal and woke
\* the select of waitForZeroConns.
C16_Witness ==
  /\ closePc = "select"
  /\ closeWake = "done"
  /\ \E c \in Conns : conn[c] = "closed"

\* C17: the step of Accept that counts increments connsCount by exactly
\* one and turns one accepted connection into a handed-out one; a failed
\* inner Accept leaves the counter, the shutdown flag, ln.done and the
\* connections unchanged; the inner Accept itself does not touch the
\* counter.
C17_AcceptFrame ==
  [][/\ (servePc = "count" /\ servePc' = "accept") =>
          /\ connsCount' = connsCount + 1
          /\ \E c \in Conns : /\ conn[c] = "accepted"
                              /\ conn' = [conn EXCEPT ![c] = "open"]
          /\ UNCHANGED << shutdown, doneCloses >>
     /\ (servePc = "accept" /\ servePc' = "send") =>
          UNCHANGED << connsCount, shutdown, doneCloses, conn >>
     /\ (servePc = "accept" /\ servePc' = "count") =>
          UNCHANGED << connsCount, shutdown, doneCloses >>]_vars

\* C17 witness: an Accept failed after a connection had been counted and
\* the shutdown had started.
C17_Witness ==
  /\ servePc = "send"
  /\ connsCount = 1
  /\ shutdown = 1

\* C18: keep-alive is disabled before Listener.Close is invoked (already
\* in the state from which Run calls it), and the inner listener is closed
\* before waitForZeroConns begins.
C18_ShutdownOrder ==
  /\ runPc = "callClose" => DisableKeepalive
  /\ closeCalls > 0 => DisableKeepalive
  /\ (closePc \in {"incShutdown", "loadCount", "select", "panic"}
        \/ shutdown > 0) => innerLn = "closed"

\* C18 witness: the drain wait has begun, with keep-alive disabled and the
\* inner listener closed.
C18_Witness ==
  /\ closePc = "select"
  /\ closeWake = "none"
  /\ DisableKeepalive
  /\ innerLn = "closed"

\* C19: a call of Listener.Close that is in progress is never stuck: a
\* step of Close itself, or the drain timer, is always possible, so the
\* call returns at the latest when the timer fires.
C19_CloseNeverStuck ==
  closePc \notin {"idle", "ret"} =>
    \/ ENABLED (\E ok \in BOOLEAN : CloseInner(ok))
    \/ ENABLED WaitIncShutdown
    \/ ENABLED WaitLoadCount
    \/ ENABLED WaitSelectReturn
    \/ ENABLED TimerFire

\* connections of the drain (counted when the inner listener was closed)
\* that closeConn has not decremented yet
StillCounted == openAtClose \cap Counted

\* C21: after a gracefulConn.Close whose inner Close failed, the counter
\* still counts every connection that closeConn has not decremented (the
\* failure decremented nothing); and as long as a connection of the drain
\* stays counted, ln.done is not closed and a Close that has entered the
\* drain returns only by the timeout (ErrFHServerShutdown), never nil.
C21_FailedConnCloseKeepsCount ==
  connCloseErrs > 0 =>
    /\ connsCount = Cardinality(Counted)
    /\ StillCounted # {} =>
         /\ doneCloses = 0
         /\ closeRet \in {"nil", "ErrFHServerShutdown"} =>
              closeRet = "ErrFHServerShutdown"

\* C22: the step of Listener.Close in which closing the inner listener
\* fails returns the wrapped error at once and leaves the inner listener,
\* the counter, the shutdown flag, ln.done, the timer and the connections
\* unchanged; a Close that has returned this error is not in the drain; and
\* only the first Close of a Run ever enters the drain, so the shutdown
\* flag is incremented at most once.
C22_InnerCloseErrorLeavesState ==
  /\ [](/\ shutdown <= 1
        /\ closeRet = "closeError" => closePc \in {"ret", "idle"}
        /\ closePc \in {"incShutdown", "loadCount", "select", "panic"} =>
             closeCalls = 1)
  /\ [][(closePc = "innerClose" /\ closePc' = "ret") =>
          /\ closeRet' = "closeError"
          /\ UNCHANGED << innerLn, connsCount, shutdown, doneCloses,
                          closeWake, timer, conn, localCount >>]_vars

\* C22 witness: after a completed drain a second signal made Run call
\* Close again; closing the closed inner listener failed and Close
\* returned the error with the shutdown flag still 1 and ln.done closed
\* once.
C22_Witness ==
  /\ closeCalls = 2
  /\ closePc = "ret"
  /\ closeRet = "closeError"
  /\ innerLn = "closed"
  /\ shutdown = 1
  /\ doneCloses = 1
  /\ timer = "off"

\* Run has exited: it returned, or the panic of a double close(ln.done)
\* inside its own call of Close unwound it (the deferred call runs then)
RunExited == runPc = "returned" \/ closePc = "panic"

\* C23: Run calls wg.Done() only when it was given a WaitGroup, exactly
\* once when it exits, whatever the exit path, and not before: the number
\* of Done calls is 1 when Run has exited and 0 while it has not (also
\* after a completed drain, while Run is still in its loop).
C23_WaitGroupDoneOnExit ==
  /\ ~wgGiven => wgDone = 0
  /\ wgGiven => wgDone = (IF RunExited THEN 1 ELSE 0)

\* C23 witness: Run, given a WaitGroup, completed a drain, stayed in its
\* loop, then received the result of the serve loop and returned, with
\* Done called once.
C23_Witness ==
  /\ wgGiven
  /\ hasLog
  /\ "Server gracefully stopped." \in logs
  /\ ServeResultReceived
  /\ runPc = "returned"
  /\ wgDone = 1

----------------------------------------------------------------------------
\* Properties of the middleware pipeline (specification PipeSpec)

\* the handler has returned for the current request
Handled == pipePc = "handled"

\* the layers a request entered, in the order it entered them
Layers(tr) == SelectSeq(tr, LAMBDA x : x # "log.event")

\* the header bytes of an encoding name
EncBytes(e) ==
  CASE e = "gzip" -> << "g", "z", "i", "p" >>
    [] e = "deflate" -> << "d", "e", "f", "l", "a", "t", "e" >>
    [] e = "br" -> << "b", "r" >>

\* the encodings the Content-Encoding header of the request names
Named(c) ==
  {e \in {"gzip", "deflate", "br"} : hasContentEncodingBytes(c.ce, EncBytes(e))}

\* the named encoding that is first in the order gzip, deflate, br
FirstNamed(c) ==
  IF "gzip" \in Named(c) THEN "gzip"
  ELSE IF "deflate" \in Named(c) THEN "deflate"
  ELSE "br"

\* C11: a panic of the application handler is caught by the recovery
\* layer and answered with the fixed response (500, "recover",
\* uncompressed); no panic leaves the pipeline, and after a fault the serve
\* loop can still take its next step.
C11_HandlerFaultContained ==
  /\ ~pipeCrashed
  /\ (Handled /\ ctx.called /\ ctx.appPanics) =>
       /\ ~ctx.panic
       /\ ctx.status = 500
       /\ ctx.respBody = "recover"
       /\ ~ctx.respEncoded
  /\ (faults > 0 /\ served < MaxRequests) => ENABLED PipeNext

\* C11 witness: after a request whose handler panicked, a later request
\* was served and answered 200 by the application handler.
C11_Witness ==
  /\ Handled
  /\ served = 2
  /\ faults = 1
  /\ ctx.called
  /\ ~ctx.appPanics
  /\ ctx.status = 200
  /\ ctx.respBody = "app"

C13_DecodeFailureKeepsBody ==
  (Handled /\ ctx.called /\ useCompression /\ Cardinality(Named(ctx)) = 1
     /\ BodyDecode(ctx.origBody, FirstNamed(ctx)).err)
  => ctx.seen = ctx.origBody

\* C14: when the header names encodings, the first of them in the order
\* gzip, deflate, br is the one applied: if it decodes the body, the
\* application handler receives the body it decodes to.
C14_FirstMatchDecodes ==
  (Handled /\ ctx.called /\ useCompression /\ Named(ctx) # {}
     /\ ~BodyDecode(ctx.origBody, FirstNamed(ctx)).err)
  => ctx.seen = BodyDecode(ctx.origBody, FirstNamed(ctx)).b

\* C15: every log event of the logging middleware has the level of its
\* status class: 400..499 warning, 500 and above error, anything else
\* debug.
C15_SeverityByStatusClass ==
  \A i \in 1..Len(ctx.events) :
    LET e == ctx.events[i]
    IN  /\ (e.status >= 400 /\ e.status <= 499) => e.level = "warn"
        /\ e.status >= 500 => e.level = "error"
        /\ e.status < 400 => e.level = "debug"

\* C15 witness: a request answered 404 was logged as a warning.
C15_Witness ==
  /\ Handled
  /\ Len(ctx.events) = 1
  /\ ctx.events[1].status = 404
  /\ ctx.events[1].level = "warn"

\* C20: for every request that enters the logging middleware exactly one
\* log event is sent, it is sent after everything else of the chain inside
\* it (the last entry of the trace), it carries the status of the
\* response, and that status is 500 when the application handler panicked.
C20_OneLogEventAfterChain ==
  (Handled /\ \E i \in 1..Len(ctx.trace) : ctx.trace[i] = "logging") =>
    /\ Len(ctx.events) = 1
    /\ Len(SelectSeq(ctx.trace, LAMBDA x : x = "log.event")) = 1
    /\ ctx.trace[Len(ctx.trace)] = "log.event"
    /\ ctx.events[1].status = ctx.status
    /\ (ctx.called /\ ctx.appPanics) => ctx.events[1].status = 500

\* C20 witness: the handler panicked, the recovery layer answered 500 and
\* the event with status 500 was sent.
C20_Witness ==
  /\ Handled
  /\ ctx.called
  /\ ctx.appPanics
  /\ Len(ctx.events) = 1
  /\ ctx.events[1].status = 500
  /\ ctx.events[1].level = "error"

=============================================================================
